---- MODULE Spec2Model ----
(***************************************************************************)
(* Model of src/app.py: the Flask webhook /callyzer-webhook of AI-QA-Bot.  *)
(* One request is the call chain of handle_callyzer_webhook: validate,     *)
(* download_recording, transcribe_audio, analyze_call, parse, write the    *)
(* transcript and the assessment file, update_excel.  The development      *)
(* server serves requests on threads, so the requests of two workers       *)
(* interleave at their I/O calls; the files on disk are the shared state.  *)
(***************************************************************************)
EXTENDS Naturals, Sequences

VARIABLES
    nreq,            \* requests received so far
    dirs,            \* directories that exist
    recordings,      \* recordings/<id>.mp3   : path -> "full" | "partial"
    transcripts,     \* transcripts/<id>.txt  : path -> text | PartialText
    qa_reports,      \* qa_reports/<id>.json  : path -> [score, feedback, complete]
    report,          \* reports/QA_Report.xlsx: [state, rows]
    pc,              \* per worker: the next statement of the handler
    body,            \* per worker: the request body (request.get_json)
    call_id,         \* per worker: local call_id
    agent_name,      \* per worker: local agent_name
    fetch,           \* per worker: how requests.get answered (r of line 31)
    transcript_text, \* per worker: local transcript_text
    analysis,        \* per worker: local analysis (raw assessor text)
    score,           \* per worker: local score
    feedback,        \* per worker: local feedback
    df,              \* per worker: the data frame update_excel holds
    exc,             \* per worker: the exception e caught at line 162
    resp,            \* per worker: the response returned
    stage,           \* per worker: last pipeline stage completed
    written          \* per worker: the files this request has written, in order

vars == <<nreq, dirs, recordings, transcripts, qa_reports, report, pc, body,
          call_id, agent_name, fetch, transcript_text, analysis, score, feedback, df,
          exc, resp, stage, written>>

fsVars == <<dirs, recordings, transcripts, qa_reports, report>>

(***************************************************************************)
(* Bounds of the model.                                                    *)
(***************************************************************************)
MaxRequests == 2

Workers == {"w1", "w2"}

(***************************************************************************)
(* Python values, as <<type, text>>.                                       *)
(***************************************************************************)
Absent == "<absent>"
Unset == <<"unset", "">>
NoneV == <<"none", "">>
NaNV == <<"nan", "">>
StrV(s) == <<"str", s>>
NumV(s) == <<"num", s>>
ListV(s) == <<"list", s>>

IsNumeric(v) == v[1] = "num"
IsScalar(v) == v[1] \in {"str", "num", "none", "nan"}

Last(s) == s[Len(s)]
Put(f, k, v) == [x \in DOMAIN f \cup {k} |-> IF x = k THEN v ELSE f[x]]
EmptyMap == [x \in {} |-> ""]

(***************************************************************************)
(* Request bodies.                                                         *)
(***************************************************************************)
Event(c, a, u) == [kind |-> "object", call_id |-> c, agent_name |-> a, recording_url |-> u]

RecordingUrl == "http://rec/1.mp3"

Bodies ==
    { Event("A", "Ann", RecordingUrl),
      Event(Absent, Absent, RecordingUrl),
      Event("A", "Ann", Absent),
      Event("B", "Ann", ""),
      [kind |-> "array", call_id |-> Absent, agent_name |-> Absent, recording_url |-> Absent],
      [kind |-> "invalid", call_id |-> Absent, agent_name |-> Absent, recording_url |-> Absent] }

\* dict.get(key, default)
DictGet(d, key, default) == IF d[key] = Absent THEN default ELSE d[key]

\* What datetime.now() returns during the run, as strftime formats it.
Clock == {[hms |-> "101500", stamp |-> "2025-01-01 10:15:00"]}

\* f"call_{datetime.now().strftime('%H%M%S')}"
Placeholder(t) == "call_" \o t.hms

\* datetime.now().strftime("%Y-%m-%d %H:%M:%S")
DateString(t) == t.stamp

RecordingPath(id) == "recordings/" \o id \o ".mp3"
TranscriptPathFixed(id) == "transcripts/transcript.txt"
TranscriptPath(id) == "transcripts/" \o id \o ".txt"
AssessmentPath(id) == "qa_reports/" \o id \o ".json"

(***************************************************************************)
(* Lines 116-125 and 162-164: reading the event, defaults, validation.     *)
(***************************************************************************)
NoResponse == [code |-> 0, error |-> "", call_id |-> "", score |-> Unset, feedback |-> Unset]

\* jsonify({"error": str(e)}), 500
ErrorResponseNoStatus(e) == [code |-> 200, error |-> e, call_id |-> "", score |-> Unset, feedback |-> Unset]
ErrorResponse(e) == [code |-> 500, error |-> e, call_id |-> "", score |-> Unset, feedback |-> Unset]

\* jsonify({"error": "Missing recording_url"}), 400
RejectResponse == [code |-> 400, error |-> "Missing recording_url", call_id |-> "", score |-> Unset, feedback |-> Unset]

\* jsonify({"status": "success", "call_id": ..., "score": ..., "feedback": ...})
SuccessResponse(id, s, f) == [code |-> 200, error |-> "", call_id |-> id, score |-> s, feedback |-> f]

IngressResult(o, m, c, a) == [outcome |-> o, msg |-> m, call_id |-> c, agent_name |-> a]

\* The handler with the check of line 124 left out.
IngressNoCheck(b, t) ==
    IF b.kind = "invalid"
    THEN IngressResult("raise", "400 Bad Request: Failed to decode JSON object", Absent, Absent)
    ELSE IF b.kind # "object"
    THEN IngressResult("raise", "'list' object has no attribute 'get'", Absent, Absent)
    ELSE IngressResult("proceed", "", DictGet(b, "call_id", Placeholder(t)),
                       DictGet(b, "agent_name", "Unknown Agent"))

\* get_json(force=True) raises on a body that is not JSON; data.get raises on a
\* body that is no JSON object; `not recording_url` is true of a missing and of an
\* empty URL.
Ingress(b, t) ==
    IF b.kind = "invalid"
    THEN IngressResult("raise", "400 Bad Request: Failed to decode JSON object", Absent, Absent)
    ELSE IF b.kind # "object"
    THEN IngressResult("raise", "'list' object has no attribute 'get'", Absent, Absent)
    ELSE IF b.recording_url \in {Absent, ""}
    THEN IngressResult("reject", "Missing recording_url",
                       DictGet(b, "call_id", Placeholder(t)),
                       DictGet(b, "agent_name", "Unknown Agent"))
    ELSE IngressResult("proceed", "", DictGet(b, "call_id", Placeholder(t)),
                       DictGet(b, "agent_name", "Unknown Agent"))

(***************************************************************************)
(* The order of the handler's statements, lines 127-160.                   *)
(***************************************************************************)
\* The handler with the transcript saved right after transcription.
NextStepSaveEarly(step) ==
    CASE step = "download" -> "transcribe"
      [] step = "transcribe" -> "save_transcript"
      [] step = "save_transcript" -> "analyze"
      [] step = "analyze" -> "parse"
      [] step = "parse" -> "save_assessment"
      [] step = "save_assessment" -> "excel_read"
      [] step = "excel_read" -> "excel_write"
      [] OTHER -> "done"

NextStep(step) ==
    CASE step = "download" -> "transcribe"
      [] step = "transcribe" -> "analyze"
      [] step = "analyze" -> "parse"
      [] step = "parse" -> "save_transcript"
      [] step = "save_transcript" -> "save_assessment"
      [] step = "save_assessment" -> "excel_read"
      [] step = "excel_read" -> "excel_write"
      [] OTHER -> "done"

(***************************************************************************)
(* download_recording, lines 26-37.                                        *)
(***************************************************************************)
DownloadOutcomes == {"ok", "conn_error", "http_error", "stream_error"}

\* download_recording without the r.raise_for_status() of line 32.
DownloadResultNoStatusCheck(o) ==
    CASE o = "conn_error" -> [raised |-> TRUE, msg |-> "Connection refused", file |-> "none"]
      [] o = "http_error" -> [raised |-> FALSE, msg |-> "", file |-> "full"]
      [] o = "stream_error" -> [raised |-> TRUE, msg |-> "Connection broken", file |-> "partial"]
      [] OTHER -> [raised |-> FALSE, msg |-> "", file |-> "full"]

\* requests.get raises before the file is opened (line 31); raise_for_status
\* raises before the file is opened (line 32); iter_content raises after
\* open(file_path, "wb") has created the file (lines 33-35).
DownloadResult(o) ==
    CASE o = "conn_error" -> [raised |-> TRUE, msg |-> "Connection refused", file |-> "none"]
      [] o = "http_error" -> [raised |-> TRUE, msg |-> "404 Client Error", file |-> "none"]
      [] o = "stream_error" -> [raised |-> TRUE, msg |-> "Connection broken", file |-> "partial"]
      [] OTHER -> [raised |-> FALSE, msg |-> "", file |-> "full"]

(***************************************************************************)
(* transcribe_audio (lines 40-47) and analyze_call (lines 50-71): what the *)
(* providers may return.                                                   *)
(***************************************************************************)
ProviderError == "<provider error>"
TranscriptTexts == {"Hello, how can I help?"}

TextGood == "{\"score\": 87, \"feedback\": \"Good empathy\"}"
TextProse == "The agent was polite but vague."
TextEmptyObject == "{}"
TextArray == "[87, \"Good\"]"
TextNullScore == "{\"score\": null, \"feedback\": \"Unclear\"}"
TextWordScore == "{\"score\": \"high\", \"feedback\": \"Good\"}"
TextListScore == "{\"score\": [80, 90], \"feedback\": \"Good\"}"

AssessorTexts == {TextGood, TextProse, TextEmptyObject, TextArray,
                  TextNullScore, TextWordScore, TextListScore}

(***************************************************************************)
(* json.loads on the assessor texts, and the parse step of lines 136-143.  *)
(***************************************************************************)
Decoded(ok, isDict, keys, s, f) ==
    [ok |-> ok, is_dict |-> isDict, keys |-> keys, score |-> s, feedback |-> f]

JsonLoads(text) ==
    CASE text = TextGood ->
            Decoded(TRUE, TRUE, {"score", "feedback"}, NumV("87"), StrV("Good empathy"))
      [] text = TextEmptyObject ->
            Decoded(TRUE, TRUE, {}, Unset, Unset)
      [] text = TextArray ->
            Decoded(TRUE, FALSE, {}, Unset, Unset)
      [] text = TextNullScore ->
            Decoded(TRUE, TRUE, {"score", "feedback"}, NoneV, StrV("Unclear"))
      [] text = TextWordScore ->
            Decoded(TRUE, TRUE, {"score", "feedback"}, StrV("high"), StrV("Good"))
      [] text = TextListScore ->
            Decoded(TRUE, TRUE, {"score", "feedback"}, ListV("[80, 90]"), StrV("Good"))
      [] OTHER ->
            Decoded(FALSE, FALSE, {}, Unset, Unset)

Parsed(raised, s, f) == [raised |-> raised, score |-> s, feedback |-> f]

\* The parse step with `except json.JSONDecodeError:` in place of `except:`.
ParseResultNarrowExcept(text) ==
    LET d == JsonLoads(text)
    IN  IF ~d.ok THEN Parsed(FALSE, StrV("N/A"), StrV(text))
        ELSE IF ~d.is_dict THEN Parsed(TRUE, Unset, Unset)
        ELSE Parsed(FALSE,
                    IF "score" \in d.keys THEN d.score ELSE StrV("N/A"),
                    IF "feedback" \in d.keys THEN d.feedback ELSE StrV(""))

\* json.loads raises on text that is not JSON; parsed.get raises AttributeError on
\* a value that is no dict; the bare except of line 141 catches both.
ParseResult(text) ==
    LET d == JsonLoads(text)
    IN  IF ~d.ok THEN Parsed(FALSE, StrV("N/A"), StrV(text))
        ELSE IF ~d.is_dict THEN Parsed(FALSE, StrV("N/A"), StrV(text))
        ELSE Parsed(FALSE,
                    IF "score" \in d.keys THEN d.score ELSE StrV("N/A"),
                    IF "feedback" \in d.keys THEN d.feedback ELSE StrV(""))

(***************************************************************************)
(* update_excel, lines 74-95: the data frame and the workbook.             *)
(***************************************************************************)
ReportFile == "reports/QA_Report.xlsx"

Columns == {"date", "call_id", "agent_name", "score", "feedback", "transcript_file"}

\* df_new, lines 79-86
NewRow(t, id, agent, s, f, path) ==
    [date |-> StrV(DateString(t)), call_id |-> StrV(id), agent_name |-> StrV(agent),
     score |-> s, feedback |-> f, transcript_file |-> StrV(path)]

\* The strings pandas.read_excel reads as missing values (keep_default_na=True).
NaStrings == {"", "#N/A", "#N/A N/A", "#NA", "-1.#IND", "-1.#QNAN", "-NaN", "-nan",
              "1.#IND", "1.#QNAN", "<NA>", "N/A", "NA", "NULL", "NaN", "None",
              "n/a", "nan", "null"}

Blank == <<"blank", "">>

\* DataFrame.to_excel: None and NaN are written as empty cells.
ToExcelCell(v) == IF v[1] \in {"none", "nan"} THEN Blank ELSE v

\* pandas.read_excel: an empty cell and a string of NaStrings are read as NaN.
ReadExcelCell(c) ==
    IF c = Blank THEN NaNV
    ELSE IF c[1] = "str" /\ c[2] \in NaStrings THEN NaNV
    ELSE c

ReadExcel(rows) == [i \in DOMAIN rows |-> [c \in Columns |-> ReadExcelCell(rows[i][c])]]
ToExcel(frame) == [i \in DOMAIN frame |-> [c \in Columns |-> ToExcelCell(frame[i][c])]]

\* openpyxl raises "Cannot convert ... to Excel" on a list or a dict.
Writable(frame) == \A i \in DOMAIN frame : \A c \in Columns : IsScalar(frame[i][c])

\* pd.concat([df, df_new], ignore_index=True)
ConcatRow(frame, row) == Append(frame, row)

NoReport == [state |-> "absent", rows |-> <<>>]
DamagedReport == [state |-> "damaged", rows |-> <<>>]

\* An update that appends its row to the workbook as it is at the time of writing.
ReportAfterWriteAppend(current, frame) ==
    [state |-> "ok", rows |-> current.rows \o ToExcel(<<Last(frame)>>)]

\* df.to_excel(file_path, index=False), line 94: the file becomes the frame, whatever
\* it held.
ReportAfterWrite(current, frame) == [state |-> "ok", rows |-> ToExcel(frame)]

(***************************************************************************)
(* The state after start-up: no request yet, no file written.              *)
(***************************************************************************)
NoEvent == [kind |-> "none", call_id |-> Absent, agent_name |-> Absent, recording_url |-> Absent]

Init ==
    /\ nreq = 0
    /\ dirs = {}
    /\ recordings = EmptyMap
    /\ transcripts = EmptyMap
    /\ qa_reports = EmptyMap
    /\ report = NoReport
    /\ pc = [p \in Workers |-> "idle"]
    /\ body = [p \in Workers |-> NoEvent]
    /\ call_id = [p \in Workers |-> Absent]
    /\ agent_name = [p \in Workers |-> Absent]
    /\ fetch = [p \in Workers |-> "none"]
    /\ transcript_text = [p \in Workers |-> ""]
    /\ analysis = [p \in Workers |-> ""]
    /\ score = [p \in Workers |-> Unset]
    /\ feedback = [p \in Workers |-> Unset]
    /\ df = [p \in Workers |-> <<>>]
    /\ exc = [p \in Workers |-> ""]
    /\ resp = [p \in Workers |-> NoResponse]
    /\ stage = [p \in Workers |-> "None"]
    /\ written = [p \in Workers |-> <<>>]

\* The handler returns r: its frame, with the locals of lines 128-143 and of
\* update_excel, is gone.  e is the exception caught at line 162, if any.
Return(p, r, e) ==
    /\ pc' = [pc EXCEPT ![p] = "done"]
    /\ resp' = [resp EXCEPT ![p] = r]
    /\ exc' = [exc EXCEPT ![p] = e]
    /\ transcript_text' = [transcript_text EXCEPT ![p] = ""]
    /\ analysis' = [analysis EXCEPT ![p] = ""]
    /\ score' = [score EXCEPT ![p] = Unset]
    /\ feedback' = [feedback EXCEPT ![p] = Unset]
    /\ df' = [df EXCEPT ![p] = <<>>]

\* except Exception as e: return jsonify({"error": str(e)}), 500   (lines 162-164)
Raise(p, msg) ==
    /\ Return(p, ErrorResponse(msg), msg)
    /\ stage' = stage

\* The statement returned normally: on to the next one.
Advance(p, step, reached) ==
    /\ pc' = [pc EXCEPT ![p] = NextStep(step)]
    /\ stage' = [stage EXCEPT ![p] = reached]
    /\ UNCHANGED <<exc, resp>>

Log(p, kind, path) == written' = [written EXCEPT ![p] = Append(@, <<kind, path>>)]

\* Lines 116-125: a worker takes a request, reads the event and validates it.
\* t is what datetime.now() returns at line 120.
Receive(p, b, t) ==
    /\ pc[p] \in {"idle", "done"}
    /\ nreq < MaxRequests
    /\ nreq' = nreq + 1
    /\ written' = [written EXCEPT ![p] = <<>>]
    /\ body' = [body EXCEPT ![p] = b]
    /\ fetch' = [fetch EXCEPT ![p] = "none"]
    /\ LET r == Ingress(b, t)
       IN  /\ call_id' = [call_id EXCEPT ![p] = r.call_id]
           /\ agent_name' = [agent_name EXCEPT ![p] = r.agent_name]
           /\ CASE r.outcome = "raise" ->
                    /\ Return(p, ErrorResponse(r.msg), r.msg)
                    /\ stage' = [stage EXCEPT ![p] = "Received"]
                [] r.outcome = "reject" ->
                    /\ Return(p, RejectResponse, "")
                    /\ stage' = [stage EXCEPT ![p] = "Received"]
                [] OTHER ->
                    /\ pc' = [pc EXCEPT ![p] = "download"]
                    /\ exc' = [exc EXCEPT ![p] = ""]
                    /\ resp' = [resp EXCEPT ![p] = NoResponse]
                    /\ stage' = [stage EXCEPT ![p] = "Validated"]
                    /\ UNCHANGED <<transcript_text, analysis, score, feedback, df>>
    /\ UNCHANGED fsVars

\* Line 128 and download_recording, lines 26-37.  requests.get raises on a URL that
\* is missing or empty.
Download(p, o) ==
    /\ pc[p] = "download"
    /\ body[p].recording_url \in {Absent, ""} => o = "conn_error"
    /\ dirs' = dirs \cup {"recordings"}
    /\ fetch' = [fetch EXCEPT ![p] = o]
    /\ LET r == DownloadResult(o)
           path == RecordingPath(call_id[p])
       IN  /\ IF r.file = "none"
              THEN UNCHANGED <<recordings, written>>
              ELSE /\ recordings' = Put(recordings, path, r.file)
                   /\ Log(p, IF r.file = "full" THEN "audio" ELSE "audio_partial", path)
           /\ IF r.raised
              THEN Raise(p, r.msg)
              ELSE /\ Advance(p, "download", "Downloaded")
                   /\ UNCHANGED <<transcript_text, analysis, score, feedback, df>>
    /\ UNCHANGED <<nreq, transcripts, qa_reports, report, body, call_id, agent_name>>

\* Line 131 and transcribe_audio, lines 40-47.
Transcribe(p, o) ==
    /\ pc[p] = "transcribe"
    /\ IF o = ProviderError
       THEN Raise(p, "transcription failed")
       ELSE /\ transcript_text' = [transcript_text EXCEPT ![p] = o]
            /\ Advance(p, "transcribe", "Transcribed")
            /\ UNCHANGED <<analysis, score, feedback, df>>
    /\ UNCHANGED <<nreq, fetch, fsVars, body, call_id, agent_name, written>>

\* Line 134 and analyze_call, lines 50-71.
Analyze(p, o) ==
    /\ pc[p] = "analyze"
    /\ IF o = ProviderError
       THEN Raise(p, "assessment failed")
       ELSE /\ analysis' = [analysis EXCEPT ![p] = o]
            /\ Advance(p, "analyze", "Assessed")
            /\ UNCHANGED <<transcript_text, score, feedback, df>>
    /\ UNCHANGED <<nreq, fetch, fsVars, body, call_id, agent_name, written>>

\* Lines 136-143.
Parse(p) ==
    /\ pc[p] = "parse"
    /\ LET r == ParseResult(analysis[p])
       IN  IF r.raised
           THEN Raise(p, "'list' object has no attribute 'get'")
           ELSE /\ score' = [score EXCEPT ![p] = r.score]
                /\ feedback' = [feedback EXCEPT ![p] = r.feedback]
                /\ Advance(p, "parse", stage[p])
                /\ UNCHANGED <<transcript_text, analysis, df>>
    /\ UNCHANGED <<nreq, fetch, fsVars, body, call_id, agent_name, written>>

FileOutcomes == {"ok", "open_error", "write_error"}
PartialText == "<partial>"
PartialRecord == [score |-> Unset, feedback |-> Unset, complete |-> FALSE]

\* Lines 146-149.  open(..., "w") creates or empties the file before f.write runs.
SaveTranscript(p, o) ==
    /\ pc[p] = "save_transcript"
    /\ dirs' = dirs \cup {"transcripts"}
    /\ LET path == TranscriptPath(call_id[p])
       IN  CASE o = "open_error" ->
                    /\ Raise(p, "Permission denied")
                    /\ UNCHANGED <<transcripts, written>>
             [] o = "write_error" ->
                    /\ transcripts' = Put(transcripts, path, PartialText)
                    /\ Log(p, "transcript_partial", path)
                    /\ Raise(p, "No space left on device")
             [] OTHER ->
                    /\ transcripts' = Put(transcripts, path, transcript_text[p])
                    /\ Log(p, "transcript", path)
                    /\ Advance(p, "save_transcript", stage[p])
                    /\ UNCHANGED <<transcript_text, analysis, score, feedback, df>>
    /\ UNCHANGED <<nreq, fetch, recordings, qa_reports, report, body, call_id, agent_name>>

\* Lines 151-154.  json.dump writes to the file opened with "w".
SaveAssessment(p, o) ==
    /\ pc[p] = "save_assessment"
    /\ dirs' = dirs \cup {"qa_reports"}
    /\ LET path == AssessmentPath(call_id[p])
       IN  CASE o = "open_error" ->
                    /\ Raise(p, "Permission denied")
                    /\ UNCHANGED <<qa_reports, written>>
             [] o = "write_error" ->
                    /\ qa_reports' = Put(qa_reports, path, PartialRecord)
                    /\ Log(p, "assessment_partial", path)
                    /\ Raise(p, "No space left on device")
             [] OTHER ->
                    /\ qa_reports' = Put(qa_reports, path,
                            [score |-> score[p], feedback |-> feedback[p], complete |-> TRUE])
                    /\ Log(p, "assessment", path)
                    /\ Advance(p, "save_assessment", stage[p])
                    /\ UNCHANGED <<transcript_text, analysis, score, feedback, df>>
    /\ UNCHANGED <<nreq, fetch, recordings, transcripts, report, body, call_id, agent_name>>

\* update_excel, lines 76-92: build df_new, read the workbook if it exists and
\* concatenate.  read_excel raises on a file that is no workbook.  t is what
\* datetime.now() returns at line 80.
ExcelRead(p, t) ==
    /\ pc[p] = "excel_read"
    /\ dirs' = dirs \cup {"reports"}
    /\ LET row == NewRow(t, call_id[p], agent_name[p], score[p], feedback[p],
                         TranscriptPath(call_id[p]))
       IN  CASE report.state = "damaged" ->
                    Raise(p, "File is not a zip file")
             [] report.state = "ok" ->
                    /\ df' = [df EXCEPT ![p] = ConcatRow(ReadExcel(report.rows), row)]
                    /\ Advance(p, "excel_read", stage[p])
                    /\ UNCHANGED <<transcript_text, analysis, score, feedback>>
             [] OTHER ->
                    /\ df' = [df EXCEPT ![p] = <<row>>]
                    /\ Advance(p, "excel_read", stage[p])
                    /\ UNCHANGED <<transcript_text, analysis, score, feedback>>
    /\ UNCHANGED <<nreq, fetch, recordings, transcripts, qa_reports, report, body, call_id,
                   agent_name, written>>

\* update_excel, line 94, and the response of line 160.  When to_excel raises, the
\* file is left as it was or as an unreadable workbook, depending on whether the
\* pandas in use opens the file before or after the cells are converted.
ExcelWrite(p) ==
    /\ pc[p] = "excel_write"
    /\ IF Writable(df[p])
       THEN /\ report' = ReportAfterWrite(report, df[p])
            /\ Log(p, "report", ReportFile)
            /\ Return(p, SuccessResponse(call_id[p], score[p], feedback[p]), "")
            /\ stage' = [stage EXCEPT ![p] = "Persisted"]
       ELSE /\ report' \in {report, DamagedReport}
            /\ Raise(p, "Cannot convert value to Excel")
            /\ UNCHANGED written
    /\ UNCHANGED <<nreq, fetch, dirs, recordings, transcripts, qa_reports, body, call_id,
                   agent_name>>

Step(p) ==
    \/ \E b \in Bodies, t \in Clock : Receive(p, b, t)
    \/ \E o \in DownloadOutcomes : Download(p, o)
    \/ \E o \in TranscriptTexts \cup {ProviderError} : Transcribe(p, o)
    \/ \E o \in AssessorTexts \cup {ProviderError} : Analyze(p, o)
    \/ Parse(p)
    \/ \E o \in FileOutcomes : SaveTranscript(p, o)
    \/ \E o \in FileOutcomes : SaveAssessment(p, o)
    \/ \E t \in Clock : ExcelRead(p, t)
    \/ ExcelWrite(p)

Next == \E p \in Workers : Step(p)

Spec == Init /\ [][Next]_vars

\* Requests served one after another: a worker acts only while no other worker is
\* inside a request.
Quiet(p) == \A q \in Workers \ {p} : pc[q] \in {"idle", "done"}

NextSeq ==
    \E p \in Workers :
        \/ \E b \in Bodies, t \in Clock : Quiet(p) /\ Receive(p, b, t)
        \/ \E o \in DownloadOutcomes : Quiet(p) /\ Download(p, o)
        \/ \E o \in TranscriptTexts \cup {ProviderError} : Quiet(p) /\ Transcribe(p, o)
        \/ \E o \in AssessorTexts \cup {ProviderError} : Quiet(p) /\ Analyze(p, o)
        \/ Quiet(p) /\ Parse(p)
        \/ \E o \in FileOutcomes : Quiet(p) /\ SaveTranscript(p, o)
        \/ \E o \in FileOutcomes : Quiet(p) /\ SaveAssessment(p, o)
        \/ \E t \in Clock : Quiet(p) /\ ExcelRead(p, t)
        \/ Quiet(p) /\ ExcelWrite(p)

SeqSpec == Init /\ [][NextSeq]_vars

(***************************************************************************)
(* Properties.                                                             *)
(***************************************************************************)
Kinds(p) == {written[p][i][1] : i \in DOMAIN written[p]}
Finished(p) == pc[p] = "done"
Succeeded(p) == pc[p] = "done" /\ resp[p].code = 200

\* The step in which worker p returns the success response.
Succeeds(p) == pc[p] = "excel_write" /\ resp'[p].code = 200

\* The files a successful request has written, all named after one identifier.
C1_Artifacts(p) ==
    LET id == resp[p].call_id
    IN  /\ id = IF body[p].call_id = Absent
                THEN "call_101500"
                ELSE body[p].call_id
        /\ written[p] = << <<"audio", "recordings/" \o id \o ".mp3">>,
                           <<"transcript", "transcripts/" \o id \o ".txt">>,
                           <<"assessment", "qa_reports/" \o id \o ".json">>,
                           <<"report", "reports/QA_Report.xlsx">> >>
        /\ ("transcripts/" \o id \o ".txt") \in DOMAIN transcripts
        /\ ("qa_reports/" \o id \o ".json") \in DOMAIN qa_reports

\* The report update of worker p: one row more than read, naming the identifier.
C1_RowAppended(p) ==
    /\ (pc[p] = "excel_read" /\ pc'[p] = "excel_write") =>
            /\ Len(df'[p]) = Len(report.rows) + 1
            /\ Last(df'[p]).call_id = StrV(call_id[p])
            /\ Last(df'[p]).transcript_file = StrV("transcripts/" \o call_id[p] \o ".txt")
    /\ Succeeds(p) =>
            /\ report'.state = "ok"
            /\ Len(report'.rows) = Len(df[p])
            /\ Last(report'.rows).call_id = StrV(resp'[p].call_id)
            /\ Last(report'.rows).transcript_file =
                    StrV("transcripts/" \o resp'[p].call_id \o ".txt")
            /\ resp'[p].call_id = call_id[p]

\* C1: a request that ends with the 200 response has written exactly one transcript
\* file transcripts/<id>.txt, exactly one assessment file qa_reports/<id>.json and
\* one report update, in which the frame it read grows by exactly one row whose
\* Call ID and Transcript File name <id>; <id> is the event's call_id, or the
\* placeholder if the event has none.
C1_SuccessWritesOneOfEach ==
    /\ [](\A p \in Workers : Succeeded(p) => C1_Artifacts(p))
    /\ [][\A p \in Workers : C1_RowAppended(p)]_vars

C1_Witness ==
    \E p \in Workers : Succeeded(p) /\ body[p].call_id = Absent /\ Len(report.rows) = 1

\* The messages of the exceptions update_excel raises.
UpdateExcelErrors == {"File is not a zip file", "Cannot convert value to Excel"}

\* C2: a request that fails in validation, download, transcription, assessment or
\* the transcript/assessment file writes has appended no report row, and the only
\* artifacts it has written are complete artifacts of stages that completed.
C2_FailureLeavesOnlyCompletedArtifacts ==
    \A p \in Workers :
        (Finished(p) /\ resp[p].code # 200 /\ exc[p] \notin UpdateExcelErrors) =>
            Kinds(p) \subseteq
                CASE stage[p] \in {"Downloaded", "Transcribed"} -> {"audio"}
                  [] stage[p] = "Assessed" -> {"audio", "transcript", "assessment"}
                  [] OTHER -> {}

\* C3, as stated: when analyze_call fails, the response is 500, the audio file and
\* the transcript file transcripts/<call_id>.txt exist, and the request has written
\* no assessment file and no report row.
C3_TranscriptExistsAfterAssessmentError ==
    \A p \in Workers :
        (Finished(p) /\ exc[p] = "assessment failed") =>
            /\ resp[p].code = 500
            /\ ("recordings/" \o call_id[p] \o ".mp3") \in DOMAIN recordings
            /\ ("transcripts/" \o call_id[p] \o ".txt") \in DOMAIN transcripts
            /\ Kinds(p) \cap {"assessment", "assessment_partial", "report"} = {}

\* C3, amended: when analyze_call fails, the response is 500 and the audio file
\* exists; the request has written the audio file and nothing else: no transcript
\* file, no assessment file, no report row.
C3_OnlyAudioAfterAssessmentError ==
    \A p \in Workers :
        (Finished(p) /\ exc[p] = "assessment failed") =>
            /\ resp[p].code = 500
            /\ resp[p].error = "assessment failed"
            /\ ("recordings/" \o call_id[p] \o ".mp3") \in DOMAIN recordings
            /\ written[p] = << <<"audio", "recordings/" \o call_id[p] \o ".mp3">> >>

C3_Witness ==
    \E p \in Workers : Finished(p) /\ exc[p] = "assessment failed" /\ transcripts = EmptyMap

\* C4: the report update is an unprotected read-modify-write.  The write replaces the
\* file by the frame the request read plus its own row, whatever the file holds by
\* then: if another request has meanwhile grown the file to N+1 rows from the N rows
\* both read, the file still has N+1 rows after the write, and both return success.
C4_WriteReplacesWithSnapshot ==
    [][\A p \in Workers :
          Succeeds(p) =>
              /\ report'.rows = ToExcel(df[p])
              /\ (report.state = "ok" /\ Len(report.rows) = Len(df[p])) =>
                      Len(report'.rows) = Len(report.rows)]_vars

\* Both requests have returned success and the report, empty before, has one row.
C4_Witness ==
    /\ nreq = 2
    /\ \A p \in Workers : Succeeded(p) /\ "report" \in Kinds(p)
    /\ report.state = "ok"
    /\ Len(report.rows) = 1

\* C5: processed one after another, every successful request grows the report by
\* exactly one row at the end and leaves the rows before it unchanged and in order.
C5_SequentialAppendKeepsRows ==
    [][\A p \in Workers :
          Succeeds(p) =>
              /\ Len(report'.rows) = Len(report.rows) + 1
              /\ SubSeq(report'.rows, 1, Len(report.rows)) = report.rows]_vars

\* The event of worker p is an object without recording_url.
NoUrl(p) == body[p].kind = "object" /\ body[p].recording_url = Absent

\* C6: an event without recording_url is answered 400 with an error body, in the one
\* step that receives it, and that step creates and changes no directory and no
\* file; nothing of the pipeline runs for it.
C6_MissingUrlRejected ==
    /\ [](\A p \in Workers :
            (pc[p] # "idle" /\ NoUrl(p)) =>
                /\ Finished(p)
                /\ resp[p].code = 400
                /\ resp[p].error = "Missing recording_url"
                /\ stage[p] = "Received"
                /\ fetch[p] = "none"
                /\ written[p] = <<>>)
    /\ [][\A p \in Workers :
            (resp'[p].code = 400 /\ nreq' # nreq) => UNCHANGED fsVars]_vars

C6_Witness ==
    \E p \in Workers : Finished(p) /\ NoUrl(p) /\ resp[p].code = 400 /\ dirs = {}

\* C7: when the download answers with a non-success status, the response is 500, no
\* later stage runs and the request has written nothing.
C7_HttpErrorStopsPipeline ==
    \A p \in Workers :
        fetch[p] = "http_error" =>
            /\ Finished(p)
            /\ resp[p].code = 500
            /\ resp[p].error = exc[p]
            /\ stage[p] = "Validated"
            /\ written[p] = <<>>

C7_Witness ==
    \E p \in Workers : fetch[p] = "http_error" /\ Finished(p) /\ recordings = EmptyMap

\* The reference of the parse step.
ReferenceParse(text) ==
    LET d == JsonLoads(text)
    IN  IF d.ok /\ d.is_dict
        THEN [score |-> IF "score" \in d.keys THEN d.score ELSE StrV("N/A"),
              feedback |-> IF "feedback" \in d.keys THEN d.feedback ELSE StrV("")]
        ELSE [score |-> StrV("N/A"), feedback |-> StrV(text)]

\* What C8 asks of one step of worker p.
C8_Step(p) ==
    /\ (pc[p] = "parse" /\ pc'[p] # "parse") =>
            /\ pc'[p] = "save_transcript"
            /\ resp'[p].code = 0
            /\ score'[p] = ReferenceParse(analysis[p]).score
            /\ feedback'[p] = ReferenceParse(analysis[p]).feedback
    /\ (pc[p] = "excel_read" /\ pc'[p] = "excel_write") =>
            /\ Last(df'[p]).score = score[p]
            /\ Last(df'[p]).feedback = feedback[p]
    /\ (Succeeds(p) /\ ~(JsonLoads(analysis[p]).ok /\ JsonLoads(analysis[p]).is_dict)) =>
            /\ Last(report'.rows).score = StrV("N/A")
            /\ Last(report'.rows).feedback = StrV(analysis[p])
    /\ Succeeds(p) =>
            /\ Last(report'.rows).score = ToExcelCell(score[p])
            /\ Last(report'.rows).feedback = ToExcelCell(feedback[p])
            /\ resp'[p].score = score[p]
            /\ resp'[p].feedback = feedback[p]

NumericOrUnknown(v) == IsNumeric(v) \/ v = StrV("N/A")

\* C9: every score in the report, in an assessment file and in a success response is
\* numeric or the sentinel "N/A".
C9_ScoreNumericOrUnknown ==
    /\ \A i \in DOMAIN report.rows : NumericOrUnknown(report.rows[i].score)
    /\ \A f \in DOMAIN qa_reports :
            qa_reports[f].complete => NumericOrUnknown(qa_reports[f].score)
    /\ \A p \in Workers : Succeeded(p) => NumericOrUnknown(resp[p].score)

\* The transitions between the five stages.
StageOrder == { <<"Validated", "Downloaded">>, <<"Downloaded", "Transcribed">>,
                <<"Transcribed", "Assessed">>, <<"Assessed", "Persisted">> }

\* Response, exception and stage of worker p agree with its position.
C10_State(p) ==
    /\ Finished(p) <=> resp[p].code \in {200, 400, 500}
    /\ ~Finished(p) => resp[p].code = 0
    /\ resp[p].code = 500 => (exc[p] # "" /\ resp[p].error = exc[p])
    /\ resp[p].code \in {200, 400} => exc[p] = ""
    /\ resp[p].code = 200 <=> stage[p] = "Persisted"
    /\ pc[p] = "download" => stage[p] = "Validated"
    /\ pc[p] = "transcribe" => stage[p] = "Downloaded"
    /\ pc[p] = "analyze" => stage[p] = "Transcribed"
    /\ pc[p] \in {"parse", "save_transcript", "save_assessment", "excel_read",
                  "excel_write"} => stage[p] = "Assessed"

\* One step of worker p moves at most one stage on and keeps what is written.
C10_Step(p) ==
    /\ \/ stage'[p] = stage[p]
       \/ <<stage[p], stage'[p]>> \in StageOrder
       \/ pc[p] \in {"idle", "done"} /\ nreq' # nreq /\ stage'[p] \in {"Received", "Validated"}
    /\ (pc[p] \notin {"idle", "done"} /\ pc'[p] = "done" /\ resp'[p].code # 200) =>
            /\ resp'[p].code = 500
            /\ stage'[p] = stage[p]
    /\ (Finished(p) /\ nreq' = nreq) =>
            /\ pc'[p] = pc[p]
            /\ resp'[p] = resp[p]
            /\ stage'[p] = stage[p]
            /\ written'[p] = written[p]
    /\ pc[p] \notin {"idle", "done"} =>
            /\ Len(written'[p]) >= Len(written[p])
            /\ SubSeq(written'[p], 1, Len(written[p])) = written[p]

\* No step removes a directory or a file.
C10_NoRemoval ==
    /\ dirs \subseteq dirs'
    /\ DOMAIN recordings \subseteq DOMAIN recordings'
    /\ DOMAIN transcripts \subseteq DOMAIN transcripts'
    /\ DOMAIN qa_reports \subseteq DOMAIN qa_reports'
    /\ report.state # "absent" => report'.state # "absent"

\* C10: a request passes Validated, Downloaded, Transcribed, Assessed, Persisted in
\* this order, one at a time; a failure leaves it at the stage it had reached, runs
\* nothing further, removes no file and is answered 500 with the failure's message;
\* a finished request has exactly one response, 200, 400 or 500.
C10_StagesInOrder ==
    /\ [](\A p \in Workers : C10_State(p))
    /\ [][C10_NoRemoval /\ \A p \in Workers : C10_Step(p)]_vars

C10_Witness ==
    \E p \in Workers :
        /\ Finished(p)
        /\ resp[p].code = 500
        /\ stage[p] = "Downloaded"
        /\ written[p] = << <<"audio", RecordingPath(call_id[p])>> >>

====
